---------------------------- MODULE Spec2Model ----------------------------
(***************************************************************************)
(* A model of csv2md.py: read_csv_file, csv_to_md_table and main.          *)
(* Text is modelled as a sequence of one-character strings, so that        *)
(* joining, prefixing and comparing strings is done character by           *)
(* character, as the program does it.                                      *)
(***************************************************************************)
EXTENDS Integers, Sequences, FiniteSets, TLC

\* Longest content string handed to csv_to_md_table in SpecTable.
MaxLen == 5
\* Longest text held by the input file or by standard input in Spec.
MaxFile == 3
\* Most rows of a table, and most cells of a row, in SpecDelim.
MaxTable == 2

\* The characters contents are drawn from: an ordinary character, the two
\* delimiters, the quote character and the two newline characters.
Chars == {"a", ",", ";", "\"", "\n", "\r"}

\* The cells of a table in SpecDelim: empty, or one character that is no
\* comma, semicolon, quote or line feed.
Cells == {<<>>, <<"a">>, <<"\r">>}

Strings(S, n) == UNION {[1..k -> S] : k \in 0..n}

(***************************************************************************)
(* String literals of the program and of the library messages it relays.   *)
(***************************************************************************)
EmptyCsvData ==
    <<"E","m","p","t","y"," ","C","S","V"," ","d","a","t","a",".">>

AnErrorOccurred ==
    <<"A","n"," ","e","r","r","o","r"," ","o","c","c","u","r","r","e","d",
      ":"," ">>

DelimiterLenMsg ==
    <<"\"","d","e","l","i","m","i","t","e","r","\""," ","m","u","s","t"," ",
      "b","e"," ","a"," ","1","-","c","h","a","r","a","c","t","e","r"," ",
      "s","t","r","i","n","g">>

NewlineInFieldMsg ==
    <<"n","e","w","-","l","i","n","e"," ","c","h","a","r","a","c","t","e",
      "r"," ","s","e","e","n"," ","i","n"," ","u","n","q","u","o","t","e",
      "d"," ","f","i","e","l","d"," ","-"," ","d","o"," ","y","o","u"," ",
      "n","e","e","d"," ","t","o"," ","o","p","e","n"," ","t","h","e"," ",
      "f","i","l","e"," ","i","n"," ","u","n","i","v","e","r","s","a","l",
      "-","n","e","w","l","i","n","e"," ","m","o","d","e","?">>

ReadErrorPrefix ==
    <<"E","r","r","o","r"," ","o","c","c","u","r","r","e","d"," ","w","h",
      "i","l","e"," ","r","e","a","d","i","n","g"," ","C","S","V"," ","f",
      "i","l","e",":"," ">>

ErrorPrefix ==
    <<"E","r","r","o","r",":"," ">>

NoSuchFileMsg ==
    <<"[","E","r","r","n","o"," ","2","]"," ","N","o"," ","s","u","c","h",
      " ","f","i","l","e"," ","o","r"," ","d","i","r","e","c","t","o","r",
      "y",":"," ","'","i","n",".","c","s","v","'">>

InputDeniedMsg ==
    <<"[","E","r","r","n","o"," ","1","3","]"," ","P","e","r","m","i","s",
      "s","i","o","n"," ","d","e","n","i","e","d",":"," ","'","i","n",".",
      "c","s","v","'">>

DecodeMsg ==
    <<"'","u","t","f","-","8","'"," ","c","o","d","e","c"," ","c","a","n",
      "'","t"," ","d","e","c","o","d","e"," ","b","y","t","e"," ","0","x",
      "f","f"," ","i","n"," ","p","o","s","i","t","i","o","n"," ","0",":",
      " ","i","n","v","a","l","i","d"," ","s","t","a","r","t"," ","b","y",
      "t","e">>

OutputDeniedMsg ==
    <<"[","E","r","r","n","o"," ","1","3","]"," ","P","e","r","m","i","s",
      "s","i","o","n"," ","d","e","n","i","e","d",":"," ","'","o","u","t",
      ".","m","d","'">>

NoSpaceMsg ==
    <<"[","E","r","r","n","o"," ","2","8","]"," ","N","o"," ","s","p","a",
      "c","e"," ","l","e","f","t"," ","o","n"," ","d","e","v","i","c","e">>

(***************************************************************************)
(* Exceptions: a type name and a message.  NoExc stands for "none".        *)
(***************************************************************************)
NoExc == [type |-> "None", msg |-> <<>>]

Exc(t, m) == [type |-> t, msg |-> m]

\* The classes that an "except Exception" clause catches.
ExceptionClasses ==
    {"Exception", "TypeError", "csv.Error", "OSError", "IOError",
     "FileNotFoundError", "PermissionError", "UnicodeDecodeError"}

IsException(t) == t \in ExceptionClasses

(***************************************************************************)
(* str.join and the line format "| " + " | ".join(cells) + " |".           *)
(***************************************************************************)
RECURSIVE join(_, _)
join(sep, parts) ==
    IF parts = <<>> THEN <<>>
    ELSE IF Len(parts) = 1 THEN parts[1]
    ELSE parts[1] \o sep \o join(sep, Tail(parts))

\* render_line without the closing " |".
render_line_unclosed(cells) == <<"|", " ">> \o join(<<" ", "|", " ">>, cells)

render_line(cells) == <<"|", " ">> \o join(<<" ", "|", " ">>, cells) \o <<" ", "|">>

separator_cells(header_row) == [i \in 1..Len(header_row) |-> <<"-", "-", "-">>]

\* pad_or_truncate without the elif branch: a long row is left as it is.
pad_only(row, header_row) ==
    IF Len(row) < Len(header_row)
    THEN row \o [i \in 1..(Len(header_row) - Len(row)) |-> <<>>]
    ELSE row

\* Lines 65-69: pad a short row with empty cells, truncate a long one.
pad_or_truncate(row, header_row) ==
    IF Len(row) < Len(header_row)
    THEN row \o [i \in 1..(Len(header_row) - Len(row)) |-> <<>>]
    ELSE IF Len(row) > Len(header_row)
    THEN SubSeq(row, 1, Len(header_row))
    ELSE row

(***************************************************************************)
(* csv.reader over io.StringIO(csv_content): the text is handed to the     *)
(* parser line by line (a line ends after each line feed), every line is   *)
(* followed by an end-of-line mark, and a record is complete when the      *)
(* parser is back in START_RECORD.  Default dialect: quote character '"',  *)
(* doubled quotes, no escape character, not strict.                        *)
(***************************************************************************)
EOL == "EOL"

QuoteChar == "\""

RECURSIVE SplitLines(_, _, _)
SplitLines(s, i, cur) ==
    IF i > Len(s) THEN (IF cur = <<>> THEN <<>> ELSE <<cur>>)
    ELSE IF s[i] = "\n" THEN <<Append(cur, "\n")>> \o SplitLines(s, i + 1, <<>>)
    ELSE SplitLines(s, i + 1, Append(cur, s[i]))

parse_reset == [state |-> "START_RECORD", field |-> <<>>, fields |-> <<>>, err |-> FALSE]

parse_save_field(ps) == [ps EXCEPT !.fields = Append(@, ps.field), !.field = <<>>]

parse_add_char(ps, c) == [ps EXCEPT !.field = Append(@, c)]

AfterNewline(c) == IF c = EOL THEN "START_RECORD" ELSE "EAT_CRNL"

IsLineEnd(c) == c = "\n" \/ c = "\r" \/ c = EOL

StartField(ps, c, d) ==
    IF IsLineEnd(c) THEN [parse_save_field(ps) EXCEPT !.state = AfterNewline(c)]
    ELSE IF c = QuoteChar THEN [ps EXCEPT !.state = "IN_QUOTED_FIELD"]
    ELSE IF c = d THEN [parse_save_field(ps) EXCEPT !.state = "START_FIELD"]
    ELSE [parse_add_char(ps, c) EXCEPT !.state = "IN_FIELD"]

parse_process_char(ps, c, d) ==
    CASE ps.state = "START_RECORD" ->
           IF c = EOL THEN ps
           ELSE IF c = "\n" \/ c = "\r" THEN [ps EXCEPT !.state = "EAT_CRNL"]
           ELSE StartField(ps, c, d)
      [] ps.state = "START_FIELD" -> StartField(ps, c, d)
      [] ps.state = "IN_FIELD" ->
           IF IsLineEnd(c) THEN [parse_save_field(ps) EXCEPT !.state = AfterNewline(c)]
           ELSE IF c = d THEN [parse_save_field(ps) EXCEPT !.state = "START_FIELD"]
           ELSE parse_add_char(ps, c)
      [] ps.state = "IN_QUOTED_FIELD" ->
           IF c = EOL THEN ps
           ELSE IF c = QuoteChar THEN [ps EXCEPT !.state = "QUOTE_IN_QUOTED_FIELD"]
           ELSE parse_add_char(ps, c)
      [] ps.state = "QUOTE_IN_QUOTED_FIELD" ->
           IF c = QuoteChar THEN [parse_add_char(ps, c) EXCEPT !.state = "IN_QUOTED_FIELD"]
           ELSE IF c = d THEN [parse_save_field(ps) EXCEPT !.state = "START_FIELD"]
           ELSE IF IsLineEnd(c) THEN [parse_save_field(ps) EXCEPT !.state = AfterNewline(c)]
           ELSE [parse_add_char(ps, c) EXCEPT !.state = "IN_FIELD"]
      [] ps.state = "EAT_CRNL" ->
           IF c = "\n" \/ c = "\r" THEN ps
           ELSE IF c = EOL THEN [ps EXCEPT !.state = "START_RECORD"]
           ELSE [ps EXCEPT !.err = TRUE]

RECURSIVE ProcessLine(_, _, _, _)
ProcessLine(ps, line, i, d) ==
    IF ps.err THEN ps
    ELSE IF i > Len(line) THEN parse_process_char(ps, EOL, d)
    ELSE ProcessLine(parse_process_char(ps, line[i], d), line, i + 1, d)

\* list(reader): the rows read, or the error the reader raised.
RECURSIVE ReadRows(_, _, _, _, _)
ReadRows(lines, k, ps, rows, d) ==
    IF k > Len(lines)
    THEN IF ps.field # <<>> \/ ps.state = "IN_QUOTED_FIELD"
         THEN [rows |-> Append(rows, parse_save_field(ps).fields), exc |-> NoExc]
         ELSE [rows |-> rows, exc |-> NoExc]
    ELSE LET ps2 == ProcessLine(ps, lines[k], 1, d)
         IN  IF ps2.err
             THEN [rows |-> <<>>, exc |-> Exc("csv.Error", NewlineInFieldMsg)]
             ELSE IF ps2.state = "START_RECORD"
             THEN ReadRows(lines, k + 1, parse_reset, Append(rows, ps2.fields), d)
             ELSE ReadRows(lines, k + 1, ps2, rows, d)

\* csv_reader that splits on "," whatever delimiter it is given.
csv_reader_comma_only(csv_content, delimiter) ==
    IF Len(delimiter) # 1
    THEN [rows |-> <<>>, exc |-> Exc("TypeError", DelimiterLenMsg)]
    ELSE ReadRows(SplitLines(csv_content, 1, <<>>), 1, parse_reset, <<>>, ",")

\* Lines 49-50: csv.reader refuses a delimiter that is not one character.
csv_reader(csv_content, delimiter) ==
    IF Len(delimiter) # 1
    THEN [rows |-> <<>>, exc |-> Exc("TypeError", DelimiterLenMsg)]
    ELSE ReadRows(SplitLines(csv_content, 1, <<>>), 1, parse_reset, <<>>, delimiter[1])

(***************************************************************************)
(* csv_to_md_table.  The value is the frame of the call when it ends: the  *)
(* string returned (ret), the exception that left the function (raised),   *)
(* the exception its except clause caught (caught), and the locals rows    *)
(* (as parsed) and data_cells (each data row as it is joined on line 70).  *)
(***************************************************************************)
Frame(ret, raised, caught, rows, data_cells) ==
    [ret |-> ret, raised |-> raised, caught |-> caught, rows |-> rows,
     data_cells |-> data_cells]

NoFrame == Frame(<<>>, NoExc, NoExc, <<>>, <<>>)

\* try_body that also answers "Empty CSV data." when the first row has no cells.
try_body_blank_header(csv_content, delimiter) ==
    LET reader == csv_reader(csv_content, delimiter)
        rows == reader.rows
    IN  IF reader.exc # NoExc THEN Frame(<<>>, reader.exc, NoExc, <<>>, <<>>)
        ELSE IF rows = <<>> \/ rows[1] = <<>> THEN Frame(EmptyCsvData, NoExc, NoExc, rows, <<>>)
        ELSE LET header_row == rows[1]
                 data_cells == [k \in 1..(Len(rows) - 1) |->
                                   pad_or_truncate(rows[k + 1], header_row)]
                 lines == <<render_line(header_row), render_line(separator_cells(header_row))>>
                          \o [k \in 1..(Len(rows) - 1) |-> render_line(data_cells[k])]
             IN  Frame(join(<<"\n">>, lines), NoExc, NoExc, rows, data_cells)

\* Lines 48-74, the body of the try statement.
try_body(csv_content, delimiter) ==
    LET reader == csv_reader(csv_content, delimiter)
        rows == reader.rows
    IN  IF reader.exc # NoExc THEN Frame(<<>>, reader.exc, NoExc, <<>>, <<>>)
        ELSE IF rows = <<>> THEN Frame(EmptyCsvData, NoExc, NoExc, rows, <<>>)
        ELSE LET header_row == rows[1]
                 header == render_line(header_row)
                 separator == render_line(separator_cells(header_row))
                 data_cells == [k \in 1..(Len(rows) - 1) |->
                                   pad_or_truncate(rows[k + 1], header_row)]
                 data_rows == [k \in 1..(Len(rows) - 1) |-> render_line(data_cells[k])]
                 md_table == join(<<"\n">>, <<header, separator>> \o data_rows)
             IN  Frame(md_table, NoExc, NoExc, rows, data_cells)

\* except_clause written as "except csv.Error": a TypeError leaves the function.
except_csv_error_only(body) ==
    IF body.raised # NoExc /\ body.raised.type = "csv.Error"
    THEN Frame(AnErrorOccurred \o body.raised.msg, NoExc, body.raised, <<>>, <<>>)
    ELSE body

\* No except clause at all: every failure leaves the function.
except_clause_reraise(body) == body

\* Lines 76-77: "except Exception as e" turns the failure into a string.
except_clause(body) ==
    IF body.raised # NoExc /\ IsException(body.raised.type)
    THEN Frame(AnErrorOccurred \o body.raised.msg, NoExc, body.raised, <<>>, <<>>)
    ELSE body

csv_to_md_table(csv_content, delimiter) == except_clause(try_body(csv_content, delimiter))

(***************************************************************************)
(* read_csv_file.  A path is opened in text mode with the default newline  *)
(* handling, which reads "\r\n" and a lone "\r" as "\n"; a stream is read  *)
(* as it is.  The value is the text returned, or the exception raised.     *)
(***************************************************************************)
RECURSIVE universal_newlines(_)
universal_newlines(s) ==
    IF s = <<>> THEN <<>>
    ELSE IF s[1] = "\r"
    THEN <<"\n">> \o universal_newlines(IF Len(s) >= 2 /\ s[2] = "\n"
                                        THEN SubSeq(s, 3, Len(s)) ELSE Tail(s))
    ELSE <<s[1]>> \o universal_newlines(Tail(s))

Returned(text) == [value |-> text, exc |-> NoExc]

Raised(e) == [value |-> <<>>, exc |-> e]

\* Lines 29-30: open(path, "r", encoding="utf-8") and f.read().
open_and_read(file) ==
    CASE file.state = "missing" -> Raised(Exc("FileNotFoundError", NoSuchFileMsg))
      [] file.state = "denied" -> Raised(Exc("PermissionError", InputDeniedMsg))
      [] file.state = "undecodable" -> Raised(Exc("UnicodeDecodeError", DecodeMsg))
      [] file.state = "ok" -> Returned(universal_newlines(file.text))

\* Lines 33-34: "except Exception as e: raise IOError(...)".
wrap_io_error(body) ==
    IF body.exc # NoExc /\ IsException(body.exc.type)
    THEN Raised(Exc("IOError", ReadErrorPrefix \o body.exc.msg))
    ELSE body

PathSource(file) == [is_path |-> TRUE, file |-> file, text |-> <<>>]

StreamSource(text) == [is_path |-> FALSE, file |-> [state |-> "ok", text |-> <<>>], text |-> text]

read_csv_file(file_path_or_obj) ==
    wrap_io_error(IF file_path_or_obj.is_path
                  THEN open_and_read(file_path_or_obj.file)
                  ELSE Returned(file_path_or_obj.text))

(***************************************************************************)
(* State.                                                                  *)
(***************************************************************************)
VARIABLES
    pc,           \* where the run is
    args,         \* the parsed command line: input, output, delimiter
    in_file,      \* the input file: its state and its stored text
    stdin,        \* the text standard input holds
    out_mode,     \* whether the output file can be opened and written
    out_file,     \* the output file: whether it exists and its text
    csv_content,  \* main's csv_content, the argument of csv_to_md_table
    frame,        \* the frame of the last call of csv_to_md_table
    md_table,     \* main's md_table
    stdout,       \* what was printed to standard output
    stderr,       \* what was printed to the error stream
    exit_code,    \* the exit code, -1 while running
    failure,      \* the exception main's except clause caught
    table,        \* SpecDelim: the table whose text is written twice
    md_comma,     \* SpecDelim: the result for the text written with ","
    md_semi       \* SpecDelim: the result for the text written with ";"

vars == <<pc, args, in_file, stdin, out_mode, out_file, csv_content, frame,
          md_table, stdout, stderr, exit_code, failure, table, md_comma, md_semi>>

Delimiters == {<<",">>, <<";">>, <<",", ";">>, <<>>}

Absent == [exists |-> FALSE, text |-> <<>>]

File(text) == [exists |-> TRUE, text |-> text]

OldText == <<"o", "l", "d">>

Omitted == [given |-> FALSE, value |-> ""]

Given(v) == [given |-> TRUE, value |-> v]

\* Python's truth value of an optional string argument.
Truthy(a) == a.given /\ a.value # ""

NoIO ==
    /\ in_file = [state |-> "missing", text |-> <<>>]
    /\ stdin = <<>>
    /\ out_mode = "ok"
    /\ out_file = Absent
    /\ stdout = <<>>
    /\ stderr = <<>>
    /\ exit_code = -1
    /\ failure = NoExc

NoDelim == table = <<>> /\ md_comma = <<>> /\ md_semi = <<>>

(***************************************************************************)
(* Spec: one run of main.                                                  *)
(***************************************************************************)
Init ==
    /\ pc = "read"
    /\ \E i \in {Omitted, Given(""), Given("in.csv")},
          o \in {Omitted, Given(""), Given("out.md")},
          d \in Delimiters :
          args = [input |-> i, output |-> o, delimiter |-> d]
    /\ IF args.input = Given("in.csv")
       THEN /\ stdin = <<>>
            /\ \/ \E t \in Strings(Chars, MaxFile) : in_file = [state |-> "ok", text |-> t]
               \/ \E s \in {"missing", "denied", "undecodable"} :
                     in_file = [state |-> s, text |-> <<>>]
       ELSE /\ stdin \in Strings(Chars, MaxFile)
            /\ in_file = [state |-> "missing", text |-> <<>>]
    /\ IF args.output = Given("out.md")
       THEN out_mode \in {"ok", "open_fails", "write_fails"}
       ELSE out_mode = "ok"
    /\ out_file \in {Absent, File(OldText)}
    /\ csv_content = <<>>
    /\ frame = NoFrame
    /\ md_table = <<>>
    /\ stdout = <<>>
    /\ stderr = <<>>
    /\ exit_code = -1
    /\ failure = NoExc
    /\ NoDelim

\* except_handler without sys.exit(1): the message is printed, the run ends with 0.
except_handler_exit_zero(e) ==
    /\ stderr' = ErrorPrefix \o e.msg \o <<"\n">>
    /\ exit_code' = 0
    /\ failure' = e
    /\ pc' = "exited"

\* Lines 117-119: print "Error: <e>" to the error stream and exit with 1.  An
\* exception that "except Exception" does not catch leaves main.
except_handler(e) ==
    IF IsException(e.type)
    THEN /\ stderr' = ErrorPrefix \o e.msg \o <<"\n">>
         /\ exit_code' = 1
         /\ failure' = e
         /\ pc' = "exited"
    ELSE /\ failure' = e
         /\ pc' = "crashed"
         /\ UNCHANGED <<stderr, exit_code>>

\* ReadInput that swallows a read failure and goes on with empty content.
ReadInputSwallow ==
    /\ pc = "read"
    /\ LET r == IF Truthy(args.input)
                THEN read_csv_file(PathSource(in_file))
                ELSE read_csv_file(StreamSource(stdin))
       IN  csv_content' = r.value
    /\ pc' = "convert"
    /\ UNCHANGED <<args, in_file, stdin, out_mode, out_file, frame, md_table, stdout,
                   stderr, exit_code, failure, table, md_comma, md_semi>>

\* Lines 102-105.
ReadInput ==
    /\ pc = "read"
    /\ LET r == IF Truthy(args.input)
                THEN read_csv_file(PathSource(in_file))
                ELSE read_csv_file(StreamSource(stdin))
       IN  IF r.exc = NoExc
           THEN /\ csv_content' = r.value
                /\ pc' = "convert"
                /\ UNCHANGED <<stderr, exit_code, failure>>
           ELSE /\ except_handler(r.exc)
                /\ UNCHANGED csv_content
    /\ UNCHANGED <<args, in_file, stdin, out_mode, out_file, frame, md_table, stdout,
                   table, md_comma, md_semi>>

\* Line 108.
Convert ==
    /\ pc = "convert"
    /\ frame' = csv_to_md_table(csv_content, args.delimiter)
    /\ IF frame'.raised = NoExc
       THEN /\ md_table' = frame'.ret
            /\ pc' = "output"
            /\ UNCHANGED <<stderr, exit_code, failure>>
       ELSE /\ except_handler(frame'.raised)
            /\ UNCHANGED md_table
    /\ UNCHANGED <<args, in_file, stdin, out_mode, out_file, csv_content, stdout,
                   table, md_comma, md_semi>>

\* Lines 111-113: open(args.output, "w") truncates the file, then it is written.
WriteOutputFile ==
    /\ pc = "output"
    /\ Truthy(args.output)
    /\ CASE out_mode = "ok" ->
              /\ out_file' = File(md_table)
              /\ pc' = "done"
              /\ exit_code' = 0
              /\ UNCHANGED <<stderr, failure>>
         [] out_mode = "open_fails" ->
              /\ except_handler(Exc("PermissionError", OutputDeniedMsg))
              /\ UNCHANGED out_file
         [] out_mode = "write_fails" ->
              /\ except_handler(Exc("OSError", NoSpaceMsg))
              /\ out_file' = File(<<>>)
    /\ UNCHANGED <<args, in_file, stdin, out_mode, csv_content, frame, md_table, stdout,
                   table, md_comma, md_semi>>

\* Lines 114-115: print(md_table).
PrintOutput ==
    /\ pc = "output"
    /\ ~Truthy(args.output)
    /\ stdout' = md_table \o <<"\n">>
    /\ pc' = "done"
    /\ exit_code' = 0
    /\ UNCHANGED <<args, in_file, stdin, out_mode, out_file, csv_content, frame,
                   md_table, stderr, failure, table, md_comma, md_semi>>

Next == ReadInput \/ Convert \/ WriteOutputFile \/ PrintOutput

Spec == Init /\ [][Next]_vars

(***************************************************************************)
(* SpecTable: csv_to_md_table called on every content and delimiter.       *)
(***************************************************************************)
InitTable ==
    /\ pc = "call"
    /\ csv_content \in Strings(Chars, MaxLen)
    /\ \E d \in Delimiters : args = [input |-> Omitted, output |-> Omitted, delimiter |-> d]
    /\ frame = NoFrame
    /\ md_table = <<>>
    /\ NoIO
    /\ NoDelim

CallCsvToMdTable ==
    /\ pc = "call"
    /\ frame' = csv_to_md_table(csv_content, args.delimiter)
    /\ md_table' = frame'.ret
    /\ pc' = "returned"
    /\ UNCHANGED <<args, in_file, stdin, out_mode, out_file, csv_content, stdout,
                   stderr, exit_code, failure, table, md_comma, md_semi>>

NextTable == CallCsvToMdTable

SpecTable == InitTable /\ [][NextTable]_vars

(***************************************************************************)
(* SpecDelim: one table written as text with "," and with ";" between the  *)
(* fields, each text rendered with its own delimiter.                      *)
(***************************************************************************)
Rows == Strings(Cells, MaxTable)

Tables == Strings(Rows, MaxTable)

\* The text of a table: cells joined by the delimiter, rows by line feeds.
WriteText(t, d) == join(<<"\n">>, [k \in 1..Len(t) |-> join(d, t[k])])

InitDelim ==
    /\ pc = "call"
    /\ table \in Tables
    /\ md_comma = <<>>
    /\ md_semi = <<>>
    /\ args = [input |-> Omitted, output |-> Omitted, delimiter |-> <<",">>]
    /\ csv_content = <<>>
    /\ frame = NoFrame
    /\ md_table = <<>>
    /\ NoIO

CallWithBothDelimiters ==
    /\ pc = "call"
    /\ md_comma' = csv_to_md_table(WriteText(table, <<",">>), <<",">>).ret
    /\ md_semi' = csv_to_md_table(WriteText(table, <<";">>), <<";">>).ret
    /\ pc' = "returned"
    /\ UNCHANGED <<args, in_file, stdin, out_mode, out_file, csv_content, frame,
                   md_table, stdout, stderr, exit_code, failure, table>>

NextDelim == CallWithBothDelimiters

SpecDelim == InitDelim /\ [][NextDelim]_vars

(***************************************************************************)
(* Vocabulary of the properties, written apart from the definitions of the *)
(* program above.                                                          *)
(***************************************************************************)
RECURSIVE Flatten(_)
Flatten(ss) == IF ss = <<>> THEN <<>> ELSE ss[1] \o Flatten(Tail(ss))

\* "| " + cells separated by " | " + " |".
PipeRow(cells) ==
    <<"|", " ">>
    \o Flatten([i \in 1..Len(cells) |->
                   IF i = 1 THEN cells[i] ELSE <<" ", "|", " ">> \o cells[i]])
    \o <<" ", "|">>

\* Lines separated by single line feeds, none after the last line.
TextOfLines(lines) ==
    Flatten([i \in 1..Len(lines) |->
                IF i = Len(lines) THEN lines[i] ELSE lines[i] \o <<"\n">>])

\* A row brought to width w: its first cells, then empty cells.
RowOfWidth(row, w) == [j \in 1..w |-> IF j <= Len(row) THEN row[j] ELSE <<>>]

Dashes(w) == [j \in 1..w |-> <<"-", "-", "-">>]

StartsWith(s, p) == Len(s) >= Len(p) /\ SubSeq(s, 1, Len(p)) = p

Returned_ == pc = "returned"

\* The call parsed at least one row.
ParsedTable == Returned_ /\ frame.rows # <<>>

(***************************************************************************)
(* C1: every data row is joined with exactly as many cells as the header   *)
(* has: its first min(n, w) cells are the parsed row's cells in order, and *)
(* the cells after the n-th are empty strings; the header line and the     *)
(* separator line carry that many cells too.                               *)
(***************************************************************************)
C1_DataRowsHaveHeaderWidth ==
    ParsedTable =>
        LET w == Len(frame.rows[1])
        IN  /\ StartsWith(md_table, PipeRow(frame.rows[1]) \o <<"\n">> \o PipeRow(Dashes(w)))
            /\ Len(frame.data_cells) = Len(frame.rows) - 1
            /\ \A k \in 1..Len(frame.data_cells) :
                  LET row == frame.rows[k + 1]
                      out == frame.data_cells[k]
                  IN  /\ Len(out) = w
                      /\ \A j \in 1..w : out[j] = IF j <= Len(row) THEN row[j] ELSE <<>>

\* A header of width 1, a data row with no cell (padded) and one with two
\* cells (truncated).
C1_Witness ==
    /\ ParsedTable
    /\ Len(frame.rows[1]) >= 1
    /\ \E k \in 2..Len(frame.rows) : Len(frame.rows[k]) < Len(frame.rows[1])
    /\ \E k \in 2..Len(frame.rows) : Len(frame.rows[k]) > Len(frame.rows[1])

(***************************************************************************)
(* C2: for an input that parses to n >= 1 rows the result is n + 1 lines   *)
(* joined by single line feeds with none at the end: the header line, a    *)
(* separator line of len(header) cells "---", then one line per data row   *)
(* in input order, each "| " + cells joined by " | " + " |".               *)
(***************************************************************************)
C2_TableIsHeaderSeparatorRows ==
    ParsedTable =>
        LET n == Len(frame.rows)
            w == Len(frame.rows[1])
            lines == [i \in 1..(n + 1) |->
                         IF i = 1 THEN PipeRow(frame.rows[1])
                         ELSE IF i = 2 THEN PipeRow(Dashes(w))
                         ELSE PipeRow(RowOfWidth(frame.rows[i - 1], w))]
        IN  /\ md_table = TextOfLines(lines)
            /\ md_table[Len(md_table)] # "\n"
            /\ n = 1 => md_table = PipeRow(frame.rows[1]) \o <<"\n">> \o PipeRow(Dashes(w))

\* A header of two cells and two data rows.
C2_Witness ==
    /\ ParsedTable
    /\ Len(frame.rows) = 3
    /\ Len(frame.rows[1]) = 2

(***************************************************************************)
(* C3: the result is "Empty CSV data." exactly when parsing yields zero    *)
(* rows, which the empty input does; as soon as one row is parsed, even a  *)
(* first row without cells from a leading blank line, a table is returned. *)
(***************************************************************************)
C3_SentinelIffNoRows ==
    Returned_ =>
        /\ md_table = EmptyCsvData <=> (frame.caught = NoExc /\ frame.rows = <<>>)
        /\ (Len(args.delimiter) = 1 /\ csv_content = <<>>) => md_table = EmptyCsvData
        /\ (Len(args.delimiter) = 1 /\ csv_content # <<>>) => md_table # EmptyCsvData
        /\ frame.rows # <<>> => StartsWith(md_table, PipeRow(frame.rows[1]))
        /\ (Len(args.delimiter) = 1 /\ csv_content # <<>> /\ csv_content[1] = "\n")
              => (frame.caught # NoExc \/ (frame.rows # <<>> /\ frame.rows[1] = <<>>))

\* A leading blank line: the header row has no cells and a table is returned.
C3_Witness ==
    /\ Returned_
    /\ csv_content # <<>>
    /\ csv_content[1] = "\n"
    /\ frame.rows # <<>>
    /\ frame.rows[1] = <<>>
    /\ md_table = <<"|", " ", " ", "|", "\n", "|", " ", " ", "|">>

(***************************************************************************)
(* C4: no exception leaves csv_to_md_table; a failure of parsing, also the *)
(* one for a delimiter that is not one character, is returned as           *)
(* "An error occurred: " followed by the message of the failure.           *)
(***************************************************************************)
C4_FailureIsReturnedAsString ==
    Returned_ =>
        /\ frame.raised = NoExc
        /\ frame.caught # NoExc => md_table = AnErrorOccurred \o frame.caught.msg
        /\ Len(args.delimiter) # 1 => md_table = AnErrorOccurred \o DelimiterLenMsg
        /\ \/ md_table = EmptyCsvData
           \/ StartsWith(md_table, <<"|", " ">>)
           \/ md_table \in {AnErrorOccurred \o DelimiterLenMsg,
                            AnErrorOccurred \o NewlineInFieldMsg}

\* A delimiter of two characters is refused and the refusal is returned.
C4_Witness ==
    /\ Returned_
    /\ Len(args.delimiter) = 2
    /\ frame.caught.type = "TypeError"
    /\ md_table = AnErrorOccurred \o DelimiterLenMsg

\* A carriage return in an unquoted field: the reader's error is returned.
C4_WitnessParseError ==
    /\ Returned_
    /\ Len(args.delimiter) = 1
    /\ frame.caught.type = "csv.Error"
    /\ md_table = AnErrorOccurred \o NewlineInFieldMsg

(***************************************************************************)
(* Vocabulary of the properties of main: what the environment of the run   *)
(* makes fail, read off the command line and the files.                    *)
(***************************************************************************)
Terminated == pc \in {"done", "exited", "crashed"}

\* The input is a path and the file cannot be read.
ReadFails == args.input.given /\ args.input.value # "" /\ in_file.state # "ok"

ReadCause ==
    CASE in_file.state = "missing" -> NoSuchFileMsg
      [] in_file.state = "denied" -> InputDeniedMsg
      [] in_file.state = "undecodable" -> DecodeMsg
      [] OTHER -> <<>>

\* The run reaches the output file and cannot open or write it.
WriteFails == ~ReadFails /\ args.output = Given("out.md") /\ out_mode # "ok"

WriteCause == IF out_mode = "open_fails" THEN OutputDeniedMsg ELSE NoSpaceMsg

\* The renderer is handed a delimiter it refuses.
RenderFails == ~ReadFails /\ Len(args.delimiter) # 1

(***************************************************************************)
(* C5: main ends with exit code 0 on success; when reading the input or    *)
(* writing the output file fails it prints "Error: <message>" to the error *)
(* stream, writes nothing to standard output and ends with exit code 1.    *)
(***************************************************************************)
C5_ExitCodes ==
    /\ pc # "crashed"
    /\ pc = "done" => exit_code = 0
    /\ (Terminated /\ ~ReadFails /\ ~WriteFails) => (pc = "done" /\ exit_code = 0)
    /\ (Terminated /\ ReadFails) =>
          /\ stderr = ErrorPrefix \o ReadErrorPrefix \o ReadCause \o <<"\n">>
          /\ stdout = <<>>
          /\ exit_code = 1
    /\ (Terminated /\ WriteFails) =>
          /\ stderr = ErrorPrefix \o WriteCause \o <<"\n">>
          /\ stdout = <<>>
          /\ exit_code = 1

\* A run that ended on a missing input file.
C5_Witness ==
    /\ Terminated
    /\ ReadFails
    /\ in_file.state = "missing"
    /\ exit_code = 1

(***************************************************************************)
(* C6: when the renderer fails, main writes the returned                   *)
(* "An error occurred: <message>" string to the output file or to standard *)
(* output as it writes a table, prints nothing to the error stream and     *)
(* ends with exit code 0; only a failure of reading or writing prints      *)
(* "Error: ..." and ends with exit code 1.                                 *)
(***************************************************************************)
C6_ErrorChannelsDistinct ==
    /\ (Terminated /\ RenderFails /\ ~WriteFails) =>
          /\ pc = "done"
          /\ exit_code = 0
          /\ stderr = <<>>
          /\ md_table = AnErrorOccurred \o DelimiterLenMsg
          /\ IF args.output = Given("out.md")
             THEN out_file = File(md_table) /\ stdout = <<>>
             ELSE stdout = md_table \o <<"\n">>
    /\ (Terminated /\ frame.caught # NoExc /\ ~WriteFails) =>
          /\ exit_code = 0
          /\ stderr = <<>>
          /\ StartsWith(md_table, AnErrorOccurred)
    /\ (exit_code = 1 \/ stderr # <<>>) => (ReadFails \/ WriteFails)

\* A refused delimiter, the error string written to the output file.
C6_Witness ==
    /\ pc = "done"
    /\ RenderFails
    /\ args.output = Given("out.md")
    /\ out_file = File(AnErrorOccurred \o DelimiterLenMsg)

(***************************************************************************)
(* C7: when -o is given, after a successful run the named file holds       *)
(* exactly the rendered string and nothing is written to standard output;  *)
(* when -o is omitted, standard output receives the rendered string and    *)
(* one line feed and no file is written.                                   *)
(***************************************************************************)
C7_OutputSink ==
    pc = "done" =>
        IF args.output.given
        THEN out_file = File(md_table) /\ stdout = <<>>
        ELSE stdout = md_table \o <<"\n">> /\ out_file \in {Absent, File(OldText)}

(***************************************************************************)
(* C8: read_csv_file returns the text character for character as stored,   *)
(* or raises an IOError that carries the message of the cause.             *)
(***************************************************************************)
C8_ReadReturnsStoredText ==
    /\ (pc = "convert" /\ Truthy(args.input)) => csv_content = in_file.text
    /\ (pc = "convert" /\ ~Truthy(args.input)) => csv_content = stdin
    /\ (pc = "exited" /\ ReadFails) =>
          /\ failure.type = "IOError"
          /\ failure.msg = ReadErrorPrefix \o ReadCause

(***************************************************************************)
(* C10: the output is touched only once reading and rendering are done; in *)
(* a run where reading the input fails the output file is never created,   *)
(* truncated or written and nothing is printed to standard output.         *)
(***************************************************************************)
OutputUntouchedStep ==
    /\ (out_file' # out_file \/ stdout' # stdout) => pc = "output"
    /\ ReadFails => (out_file' = out_file /\ stdout' = <<>>)

C10_OutputOnlyAfterReadAndRender == [][OutputUntouchedStep]_vars

\* A failed read with -o naming an existing file, which keeps its text.
C10_Witness ==
    /\ pc = "exited"
    /\ ReadFails
    /\ args.output = Given("out.md")
    /\ out_file = File(OldText)
    /\ stdout = <<>>

(***************************************************************************)
(* C9: for a table whose cells hold no comma, semicolon, quote or line     *)
(* feed, the text written with ";" rendered with delimiter ";" gives the   *)
(* same string as the text written with "," rendered with the default      *)
(* delimiter; the fields are those between the delimiters.                 *)
(***************************************************************************)
\* Every row has a cell, none is a lone empty cell, no cell is a carriage return.
PlainTable ==
    /\ table # <<>>
    /\ \A k \in 1..Len(table) :
          /\ table[k] # <<>>
          /\ table[k] # << <<>> >>
          /\ \A j \in 1..Len(table[k]) : table[k][j] # <<"\r">>

ExpectedTable ==
    TextOfLines([i \in 1..(Len(table) + 1) |->
                    IF i = 1 THEN PipeRow(table[1])
                    ELSE IF i = 2 THEN PipeRow(Dashes(Len(table[1])))
                    ELSE PipeRow(RowOfWidth(table[i - 1], Len(table[1])))])

C9_DelimiterIndependence ==
    Returned_ =>
        /\ md_semi = md_comma
        /\ PlainTable => md_semi = ExpectedTable

\* Two rows of two cells, split on ";".
C9_Witness ==
    /\ Returned_
    /\ table = << <<<<"a">>, <<>>>>, <<<<>>, <<"a">>>> >>
    /\ md_semi = md_comma
    /\ md_semi = ExpectedTable

=============================================================================
